---- MODULE Spec2Model ----
(***************************************************************************)
(* ECLAT frequent-itemset mining and association-rule derivation           *)
(* (Code/eclat_algo.py).                                                   *)
(*                                                                         *)
(* Items are integers; their integer order is the order in which           *)
(* DataFrame.groupby lists the group keys.  A fraction (min_support,       *)
(* support, confidence, lift) is a pair <<numerator, denominator>> and is  *)
(* compared by cross-multiplication.  An optional integer (max_iter) is    *)
(* <<>> for None and <<n>> for the integer n.                              *)
(***************************************************************************)
EXTENDS Bags, FiniteSets, Integers, Sequences, TLC

\* ------------------------------------------------------------------ bounds
NumItems == 3
NumTrans == 3
MaxDen == 3
MaxCap == 3
MaxItemsets == 2        \* most itemsets given to one call of assoc_rules
MaxMissing == 1         \* most records removed from a table given to it
MaxItemsetLen == 3      \* longest list given to one call of _find_common_prefix

Items == 1..NumItems
Trans == 1..NumTrans

\* ------------------------------------------------------- the demo fixture
bread == 1
butter == 2
cheese == 3
eggs == 4
milk == 5

FixtureRows ==
    { <<1, bread>>, <<2, bread>>, <<5, bread>>,
      <<1, milk>>, <<4, milk>>, <<5, milk>>,
      <<2, cheese>>, <<3, cheese>>, <<4, cheese>>, <<5, cheese>>,
      <<2, butter>>, <<4, butter>>,
      <<3, eggs>>, <<4, eggs>> }

FixtureSupport == <<2, 5>>

\* the lowest threshold that still prunes nothing of the demo data
LowestSupport == <<1, 5>>

VARIABLES
    df,                 \* bag of (transaction, item) rows given to eclat
    min_support,        \* <<n, d>>, the threshold n/d
    max_iter,           \* <<>> (None) or <<n>>
    pc,                 \* "start", "loop", "done", "error"
    vert_df,            \* sequence of [item, transacts], pruned and ordered
    total_transactions,
    minFreq,
    equiv_classes,      \* stack of classes; the top is the last element
    freq_itemset,       \* sequence of [itemsets, frequencies, support]
    iterations,         \* number of classes popped so far (history)
    cap,                \* the max_iter argument as passed (history)
    prefix_calls        \* number of calls of _find_common_prefix so far (history)

eclatVars == <<df, min_support, max_iter, pc, vert_df, total_transactions,
               minFreq, equiv_classes, freq_itemset, iterations, cap, prefix_calls>>

VARIABLES
    itemsets,           \* the itemsets given to assoc_rules
    frequent_df,        \* the table given to assoc_rules
    rpc,                \* "idle", "start", "returned", "raised"
    rules_df,           \* the returned sequence of [rule, support, confidence, lift]
    error,              \* the itemset the raised exception names
    exc                 \* the type of the exception that reaches the caller, "" if none

rulesVars == <<itemsets, frequent_df, rpc, rules_df, error, exc>>

VARIABLES
    arg1,               \* itemset1 and itemset2, the arguments of a call of
    arg2,               \* _find_common_prefix
    fpc,                \* "idle", "start", "returned", "raised"
    common_prefix,      \* the list the call returns
    fexc                \* the type of the exception the call raises, "" if none

prefixVars == <<arg1, arg2, fpc, common_prefix, fexc>>

vars == <<eclatVars, rulesVars, prefixVars>>

\* ------------------------------------------------------------- arithmetic
\* math.ceil(n/d * t) for n/d > 0
CeilMul(frac, t) == (frac[1] * t + frac[2] - 1) \div frac[2]

Min(a, b) == IF a <= b THEN a ELSE b

RatLeq(a, b) == a[1] * b[2] <= b[1] * a[2]
RatEq(a, b) == a[1] * b[2] = b[1] * a[2]

\* ------------------------------------------------------------- sequences
Last(s) == s[Len(s)]
Front(s) == SubSeq(s, 1, Len(s) - 1)

\* the elements of a set of integers in ascending order
SeqOfSet(S) ==
    [p \in 1..Cardinality(S) |->
       CHOOSE x \in S : Cardinality({y \in S : y < x}) = p - 1]

\* sorted(s, key=...), a stable sort: keys[k] is the key computed for s[k],
\* and element k goes behind the elements of smaller key and behind the
\* earlier elements of equal key
StableSort(s, keys) ==
    LET Rank(k) == 1 + Cardinality({m \in 1..Len(s) :
                          \/ keys[m] < keys[k]
                          \/ keys[m] = keys[k] /\ m < k})
    IN  [p \in 1..Len(s) |-> s[CHOOSE k \in 1..Len(s) : Rank(k) = p]]

\* variant: no row is dropped
SelectRowsKeepAll(s, mf) == s

\* vert_df[vert_df[transact_col].apply(len) >= minFreq]
SelectRows(s, mf) == SelectSeq(s, LAMBDA row : Cardinality(row.transacts) >= mf)

RECURSIVE Flatten(_)
Flatten(ss) == IF ss = <<>> THEN <<>> ELSE Head(ss) \o Flatten(Tail(ss))

\* ---------------------------------------------------- _vertical_transform
\* variant: the rows stay in the order of groupby, the sort is left out
VerticalTransformUnsorted(bag) ==
    LET rows == BagToSet(bag)
        keys == SeqOfSet({r[2] : r \in rows})
    IN  [k \in 1..Len(keys) |->
           [item |-> keys[k],
            transacts |-> {r[1] : r \in {q \in rows : q[2] = keys[k]}}]]

\* variant: the rows are sorted by descending length of the set
VerticalTransformDescending(bag) ==
    LET rows == BagToSet(bag)
        keys == SeqOfSet({r[2] : r \in rows})
        grouped == [k \in 1..Len(keys) |->
                      [item |-> keys[k],
                       transacts |-> {r[1] : r \in {q \in rows : q[2] = keys[k]}}]]
    IN  StableSort(grouped,
                   [k \in 1..Len(keys) |-> 0 - Cardinality(grouped[k].transacts)])

\* groupby(item_col).aggregate(set), then sort_values by the set's length
VerticalTransform(bag) ==
    LET rows == BagToSet(bag)
        keys == SeqOfSet({r[2] : r \in rows})
        grouped == [k \in 1..Len(keys) |->
                      [item |-> keys[k],
                       transacts |-> {r[1] : r \in {q \in rows : q[2] = keys[k]}}]]
    IN  StableSort(grouped,
                   [k \in 1..Len(keys) |-> Cardinality(grouped[k].transacts)])

\* ---------------------------------------------------- _find_common_prefix
\* the value of the loop variable i (0-based) when the for loop ends
LoopIndex(itemset1, itemset2) ==
    LET diff == {k \in 1..Len(itemset1) : itemset1[k] # itemset2[k]}
    IN  IF diff = {} THEN Len(itemset1) - 1
        ELSE (CHOOSE k \in diff : \A m \in diff : k <= m) - 1

\* variant: the slice stops one item early
FindCommonPrefixShort(itemset1, itemset2) ==
    IF Len(itemset1) # Len(itemset2) THEN [raised |-> "ValueError", value |-> <<>>]
    ELSE IF itemset1 = <<>> THEN [raised |-> "UnboundLocalError", value |-> <<>>]
    ELSE LET i == LoopIndex(itemset1, itemset2)
         IN  IF i - 1 < 0 THEN [raised |-> "", value |-> <<>>]
             ELSE [raised |-> "", value |-> SubSeq(itemset1, 1, i - 1)]

FindCommonPrefix(itemset1, itemset2) ==
    IF Len(itemset1) # Len(itemset2) THEN [raised |-> "ValueError", value |-> <<>>]
    ELSE IF itemset1 = <<>> THEN [raised |-> "UnboundLocalError", value |-> <<>>]
    ELSE LET i == LoopIndex(itemset1, itemset2)
         IN  IF i - 1 < 0 THEN [raised |-> "", value |-> <<>>]
             ELSE [raised |-> "", value |-> SubSeq(itemset1, 1, i)]

\* ------------------------------------------------------------ eclat: body
\* variant: the sort key is the item itself
IndexLenByItem(vdf, item) == item

\* len(vert_df.loc[item][transact_col])
IndexLen(vdf, item) ==
    LET k == CHOOSE n \in 1..Len(vdf) : vdf[n].item = item
    IN  Cardinality(vdf[k].transacts)

\* lines 85-87: the common prefix with the two last items appended
Appended(itemset, itemset2) ==
    FindCommonPrefix(itemset, itemset2).value \o <<Last(itemset), Last(itemset2)>>

\* lines 85-88: the itemset made of element i and element j
NewItemset(itemset, itemset2, vdf) ==
    LET appended == FindCommonPrefix(itemset, itemset2).value
                        \o <<Last(itemset), Last(itemset2)>>
    IN  StableSort(appended, [k \in 1..Len(appended) |-> IndexLen(vdf, appended[k])])

\* variant: a candidate with exactly minFreq transactions is discarded
NextClassStrict(cur_class, i, vdf, mf) ==
    LET partners == SelectSeq(SubSeq(cur_class, i + 1, Len(cur_class)),
                              LAMBDA e2 : Cardinality(cur_class[i].transacts \cap e2.transacts)
                                              > mf)
    IN  [k \in 1..Len(partners) |->
           [itemset |-> NewItemset(cur_class[i].itemset, partners[k].itemset, vdf),
            transacts |-> cur_class[i].transacts \cap partners[k].transacts]]

\* variant: the transactions of the two elements are united, not intersected
NextClassUnion(cur_class, i, vdf, mf) ==
    LET partners == SelectSeq(SubSeq(cur_class, i + 1, Len(cur_class)),
                              LAMBDA e2 : Cardinality(cur_class[i].transacts \cap e2.transacts)
                                              >= mf)
    IN  [k \in 1..Len(partners) |->
           [itemset |-> NewItemset(cur_class[i].itemset, partners[k].itemset, vdf),
            transacts |-> cur_class[i].transacts \cup partners[k].transacts]]

\* lines 80-92: the class built for element i of the popped class: one
\* element per later element whose intersection reaches minFreq
NextClass(cur_class, i, vdf, mf) ==
    LET partners == SelectSeq(SubSeq(cur_class, i + 1, Len(cur_class)),
                              LAMBDA e2 : Cardinality(cur_class[i].transacts \cap e2.transacts)
                                              >= mf)
    IN  [k \in 1..Len(partners) |->
           [itemset |-> NewItemset(cur_class[i].itemset, partners[k].itemset, vdf),
            transacts |-> cur_class[i].transacts \cap partners[k].transacts]]

\* line 85: the number of calls of _find_common_prefix made while the popped
\* class is processed: one per pair whose intersection reaches minFreq
PrefixCalls(cur_class, mf) ==
    Cardinality({q \in (1..Len(cur_class)) \X (1..Len(cur_class)) :
                   /\ q[1] < q[2]
                   /\ Cardinality(cur_class[q[1]].transacts \cap cur_class[q[2]].transacts)
                          >= mf})

\* line 85: the exception _find_common_prefix raises on the first pair that
\* reaches it, "" when no pair raises
Raised(cur_class, mf) ==
    LET bad == {q \in (1..Len(cur_class)) \X (1..Len(cur_class)) :
                  /\ q[1] < q[2]
                  /\ Cardinality(cur_class[q[1]].transacts \cap cur_class[q[2]].transacts) >= mf
                  /\ FindCommonPrefix(cur_class[q[1]].itemset,
                                      cur_class[q[2]].itemset).raised # ""}
        first == CHOOSE q \in bad : \A r \in bad :
                     q[1] < r[1] \/ (q[1] = r[1] /\ q[2] <= r[2])
    IN  IF bad = {} THEN ""
        ELSE FindCommonPrefix(cur_class[first[1]].itemset, cur_class[first[2]].itemset).raised

\* variant: the support is taken over the frequent transactions only
RecordOfLocalTotal(element, total) ==
    [itemsets |-> element.itemset,
     frequencies |-> Cardinality(element.transacts),
     support |-> <<Cardinality(element.transacts), Cardinality(element.transacts) + total>>]

\* lines 91-92: the record emitted for an element of a class
RecordOf(element, total) ==
    [itemsets |-> element.itemset,
     frequencies |-> Cardinality(element.transacts),
     support |-> <<Cardinality(element.transacts), total>>]

\* variant: every new element is pushed as a class of its own
PushedPerElement(cur_class, vdf, mf) ==
    LET new == Flatten([i \in 1..(Len(cur_class) - 1) |-> NextClass(cur_class, i, vdf, mf)])
    IN  [k \in 1..Len(new) |-> <<new[k]>>]

\* lines 79-94: the classes pushed while the popped class is processed, in
\* the order of their first elements; the empty ones are not pushed
Pushed(cur_class, vdf, mf) ==
    SelectSeq([i \in 1..(Len(cur_class) - 1) |-> NextClass(cur_class, i, vdf, mf)],
              LAMBDA next_class : next_class # <<>>)

\* lines 91-92: the records appended while the popped class is processed
Emitted(cur_class, vdf, mf, total) ==
    LET new == Flatten(Pushed(cur_class, vdf, mf))
    IN  [k \in 1..Len(new) |-> RecordOf(new[k], total)]

\* lines 68-73: the seed class and the singleton records
SeedClass(pruned) ==
    [k \in 1..Len(pruned) |->
       [itemset |-> <<pruned[k].item>>, transacts |-> pruned[k].transacts]]

\* variant: the last item of the index gets no record
SeedRecordsButLast(pruned, total) ==
    [k \in 1..(Len(pruned) - 1) |-> RecordOf(SeedClass(pruned)[k], total)]

\* lines 70-73: the records of the singletons
SeedRecords(pruned, total) ==
    [k \in 1..Len(pruned) |-> RecordOf(SeedClass(pruned)[k], total)]

\* line 76: the value of max_iter after the walrus assignment
Decremented(mi) == <<mi[1] - 1>>

\* variant: the loop runs only while the decremented budget is positive
LoopConditionPositive(stack, mi) == stack # <<>> /\ Decremented(mi)[1] > 0

\* line 76: the loop condition; the right operand is evaluated only when the
\* stack is non-empty
LoopCondition(stack, mi) == stack # <<>> /\ Decremented(mi)[1] # 0

\* ----------------------------------------------------------- eclat: steps
\* the canonical inputs: transaction t holds the items f[t]; transaction ids
\* are opaque, so the transactions are listed by non-decreasing code
RECURSIVE SetCode(_)
SetCode(S) ==
    IF S = {} THEN 0
    ELSE LET m == CHOOSE x \in S : \A y \in S : x >= y
         IN  2 ^ m + SetCode(S \ {m})

Databases ==
    { {r \in Trans \X Items : r[2] \in f[r[1]]} :
        f \in {g \in [Trans -> SUBSET Items] :
                 \A t \in Trans : t + 1 \in Trans => SetCode(g[t]) <= SetCode(g[t + 1])} }

\* a row of the first transaction may be repeated in the input
RowBags(rows) ==
    {SetToBag(rows)} \cup {SetToBag(rows) (+) SetToBag({r}) : r \in {q \in rows : q[1] = 1}}

\* the fractions n/d in (0, 1], in lowest terms
Supports == {q \in (1..MaxDen) \X (1..MaxDen) :
               q[1] <= q[2] /\ \A c \in 2..MaxDen : ~(q[1] % c = 0 /\ q[2] % c = 0)}

Caps == {<<>>} \cup {<<n>> : n \in 0..MaxCap}

EclatIdle ==
    /\ vert_df = <<>>
    /\ total_transactions = 0
    /\ minFreq = 0
    /\ equiv_classes = <<>>
    /\ freq_itemset = <<>>
    /\ iterations = 0
    /\ prefix_calls = 0

RulesIdle ==
    /\ itemsets = <<>>
    /\ frequent_df = <<>>
    /\ rpc = "idle"
    /\ rules_df = <<>>
    /\ error = <<>>
    /\ exc = ""

PrefixIdle ==
    /\ arg1 = <<>>
    /\ arg2 = <<>>
    /\ fpc = "idle"
    /\ common_prefix = <<>>
    /\ fexc = ""

Init ==
    /\ \/ /\ \E rows \in Databases : df \in RowBags(rows)
          /\ min_support \in Supports
       \/ /\ df = SetToBag(FixtureRows)
          /\ min_support \in {FixtureSupport, LowestSupport}
    /\ max_iter \in Caps
    /\ cap = max_iter
    /\ EclatIdle
    /\ pc = "start"
    /\ RulesIdle
    /\ PrefixIdle

\* lines 62-75
Setup ==
    /\ pc = "start"
    /\ \E total \in {Cardinality({r[1] : r \in BagToSet(df)})} :
       \E mf \in {CeilMul(min_support, total)} :
       \E pruned \in {SelectRows(VerticalTransform(df), mf)} :
          /\ vert_df' = pruned
          /\ total_transactions' = total
          /\ minFreq' = mf
          /\ equiv_classes' = <<SeedClass(pruned)>>
          /\ freq_itemset' = SeedRecords(pruned, total)
    /\ max_iter' = IF max_iter = <<>> \/ max_iter = <<0>> THEN <<0>> ELSE max_iter
    /\ pc' = "loop"
    /\ UNCHANGED <<df, min_support, iterations, cap, prefix_calls, rulesVars, prefixVars>>

\* lines 76-94: one iteration of the while loop
LoopIter ==
    /\ pc = "loop"
    /\ LoopCondition(equiv_classes, max_iter)
    /\ max_iter' = Decremented(max_iter)
    /\ LET cur_class == Last(equiv_classes)
       IN  IF Raised(cur_class, minFreq) # ""
           THEN /\ pc' = "error"
                /\ UNCHANGED <<equiv_classes, freq_itemset>>
           ELSE /\ pc' = "loop"
                /\ equiv_classes' = Front(equiv_classes)
                                        \o Pushed(cur_class, vert_df, minFreq)
                /\ freq_itemset' = freq_itemset
                                       \o Emitted(cur_class, vert_df, minFreq,
                                                  total_transactions)
    /\ iterations' = iterations + 1
    /\ prefix_calls' = prefix_calls + PrefixCalls(Last(equiv_classes), minFreq)
    /\ UNCHANGED <<df, min_support, vert_df, total_transactions, minFreq, cap,
                   rulesVars, prefixVars>>

\* variant: an exhausted budget is reported as an error
ReturnRaising ==
    /\ pc = "loop"
    /\ ~LoopCondition(equiv_classes, max_iter)
    /\ max_iter' = IF equiv_classes # <<>> THEN Decremented(max_iter) ELSE max_iter
    /\ pc' = IF equiv_classes # <<>> THEN "error" ELSE "done"
    /\ UNCHANGED <<df, min_support, vert_df, total_transactions, minFreq,
                   equiv_classes, freq_itemset, iterations, cap, prefix_calls,
                   rulesVars, prefixVars>>

\* lines 76 and 95: the loop condition fails and the table is returned
Return ==
    /\ pc = "loop"
    /\ ~LoopCondition(equiv_classes, max_iter)
    /\ max_iter' = IF equiv_classes # <<>> THEN Decremented(max_iter) ELSE max_iter
    /\ pc' = "done"
    /\ UNCHANGED <<df, min_support, vert_df, total_transactions, minFreq,
                   equiv_classes, freq_itemset, iterations, cap, prefix_calls,
                   rulesVars, prefixVars>>

Next == Setup \/ LoopIter \/ Return

Spec == Init /\ [][Next]_vars

\* ENABLED <<Setup \/ LoopIter>>_vars: Setup can run at "start" and changes
\* pc, LoopIter can run at "loop" when the loop condition holds and changes
\* iterations
StepEnabled == pc = "start" \/ (pc = "loop" /\ LoopCondition(equiv_classes, max_iter))

StepEnabledIsExact == StepEnabled <=> ENABLED <<Setup \/ LoopIter>>_vars

\* eclat is a sequential program that keeps running until it returns: weak
\* fairness of its steps.  For Setup and LoopIter it is WF_vars(Setup \/ LoopIter)
\* with the ENABLED predicate written out as StepEnabled.
Fairness ==
    /\ WF_vars(Return)
    /\ []<>(~StepEnabled) \/ []<><<Setup \/ LoopIter>>_vars

FairSpec == Spec /\ Fairness

\* the runs on observations without a repeated row: the set of line 18 drops
\* a repetition, and the search of lines 68-95 reads the index only
InitSearch ==
    /\ Init
    /\ \A r \in BagToSet(df) : CopiesIn(r, df) = 1

SpecSearch == InitSearch /\ [][Next]_vars

\* lines 76-94 with max_iter absent: the loop run to the empty stack
\* st = [stack, emitted, raised]; n counts the classes popped
RECURSIVE RunLoop(_, _, _, _, _)
RunLoop(st, n, vdf, mf, total) ==
    IF st.stack = <<>> \/ st.raised # ""
    THEN [emitted |-> st.emitted, popped |-> n, raised |-> st.raised]
    ELSE RunLoop([stack |-> Front(st.stack) \o Pushed(Last(st.stack), vdf, mf),
                  emitted |-> st.emitted \o Emitted(Last(st.stack), vdf, mf, total),
                  raised |-> Raised(Last(st.stack), mf)],
                 n + 1, vdf, mf, total)

\* eclat(df, min_support, item_col) as one evaluation
EclatRun(bag, sup) ==
    LET total == Cardinality({r[1] : r \in BagToSet(bag)})
        mf == CeilMul(sup, total)
        vdf == SelectRows(VerticalTransform(bag), mf)
    IN  RunLoop([stack |-> <<SeedClass(vdf)>>, emitted |-> SeedRecords(vdf, total),
                 raised |-> ""],
                0, vdf, mf, total)

\* the uncapped run on the input of the current run
Uncapped == EclatRun(df, min_support)

\* ------------------------------------------------------------ assoc_rules
Range(s) == {s[k] : k \in 1..Len(s)}

\* itertools.combinations(s, r): the r-element subsequences of s, by
\* lexicographic order of their positions
Combinations(s, r) ==
    LET idx == {I \in SUBSET (1..Len(s)) : Cardinality(I) = r}
        Before(I, J) == \E k \in I \ J : \A m \in J \ I : k < m
        ordered == [p \in 1..Cardinality(idx) |->
                      CHOOSE I \in idx : Cardinality({J \in idx : Before(J, I)}) = p - 1]
    IN  [p \in 1..Cardinality(idx) |->
           [k \in 1..r |-> s[SeqOfSet(ordered[p])[k]]]]

\* variant: the longest antecedents are left out
powersetShort(iterable) ==
    Flatten([r \in 1..(Len(iterable) - 2) |-> Combinations(iterable, r)])

\* lines 11-14: chain of combinations(iterable, r) for r in range(1, len)
powerset(iterable) ==
    Flatten([r \in 1..(Len(iterable) - 1) |-> Combinations(iterable, r)])

\* line 123: the rules of one itemset: each antecedent with the items of the
\* itemset that are not in it
RulesOf(itemset) ==
    LET antecedents == powerset(itemset)
    IN  [k \in 1..Len(antecedents) |->
           <<antecedents[k],
             SelectSeq(itemset, LAMBDA item : item \notin Range(antecedents[k]))>>]

\* lines 121-123: the rules of every itemset, in the order of the itemsets
Rules(sets) == Flatten([n \in 1..Len(sets) |-> RulesOf(sets[n])])

\* collections.Counter(lis)
Counter(lis) == [x \in Range(lis) |-> Cardinality({k \in 1..Len(lis) : lis[k] = x})]

\* variant: a record matches only an itemset listed in the same order
MaskedBySequence(table, query) ==
    SelectSeq(table, LAMBDA rec : rec.itemsets = query)

\* frequent_df[mask], mask = Counter(lis) == Counter(query) on the itemsets
Masked(table, query) ==
    SelectSeq(table, LAMBDA rec : Counter(rec.itemsets) = Counter(query))

\* variant: the lift is taken against the support of the antecedent
RuleRowAntecedentLift(rule, table) ==
    LET whole == Masked(table, rule[1] \o rule[2])
        ante == Masked(table, rule[1])
        cons == Masked(table, rule[2])
    IN  IF whole = <<>> THEN [raised |-> TRUE, missing |-> rule[1] \o rule[2], row |-> <<>>]
        ELSE IF ante = <<>> THEN [raised |-> TRUE, missing |-> rule[1], row |-> <<>>]
        ELSE IF cons = <<>> THEN [raised |-> TRUE, missing |-> rule[2], row |-> <<>>]
        ELSE [raised |-> FALSE, missing |-> <<>>,
              row |-> [rule |-> rule,
                       support |-> whole[1].support,
                       confidence |-> <<whole[1].frequencies, ante[1].frequencies>>,
                       lift |-> <<whole[1].frequencies * ante[1].support[2],
                                  ante[1].frequencies * ante[1].support[1]>>]]

\* lines 126-142: one rule; values[0] is the first record under the mask, and
\* its absence is the ValueError that names the queried itemset
RuleRow(rule, table) ==
    LET whole == Masked(table, rule[1] \o rule[2])
        ante == Masked(table, rule[1])
        cons == Masked(table, rule[2])
    IN  IF whole = <<>> THEN [raised |-> TRUE, missing |-> rule[1] \o rule[2], row |-> <<>>]
        ELSE IF ante = <<>> THEN [raised |-> TRUE, missing |-> rule[1], row |-> <<>>]
        ELSE IF cons = <<>> THEN [raised |-> TRUE, missing |-> rule[2], row |-> <<>>]
        ELSE [raised |-> FALSE, missing |-> <<>>,
              row |-> [rule |-> rule,
                       support |-> whole[1].support,
                       confidence |-> <<whole[1].frequencies, ante[1].frequencies>>,
                       lift |-> <<whole[1].frequencies * cons[1].support[2],
                                  ante[1].frequencies * cons[1].support[1]>>]]

\* lines 128, 129, 133, 137: .values[0] of a selection without rows
EmptySelection == "IndexError"

\* lines 130, 134, 138: except IndexError: raise ValueError(...); the type of
\* the exception that leaves the try statement
Reraised(kind) == IF kind = "IndexError" THEN "ValueError" ELSE kind

\* lines 119-143: the whole call; the first rule that raises ends it
AssocRules(sets, table) ==
    LET rules == Rules(sets)
        rows == [k \in 1..Len(rules) |-> RuleRow(rules[k], table)]
        bad == {k \in 1..Len(rules) : rows[k].raised}
    IN  IF bad # {}
        THEN [raised |-> TRUE,
              missing |-> rows[CHOOSE k \in bad : \A m \in bad : k <= m].missing,
              exc |-> Reraised(EmptySelection),
              rules_df |-> <<>>]
        ELSE [raised |-> FALSE, missing |-> <<>>, exc |-> "",
              rules_df |-> [k \in 1..Len(rules) |-> rows[k].row]]

\* the call returns its rule table
AssocRulesReturn ==
    /\ rpc = "start"
    /\ \E out \in {AssocRules(itemsets, frequent_df)} :
          /\ ~out.raised
          /\ rules_df' = out.rules_df
    /\ rpc' = "returned"
    /\ UNCHANGED <<itemsets, frequent_df, error, exc, eclatVars, prefixVars>>

\* the call raises
AssocRulesRaise ==
    /\ rpc = "start"
    /\ \E out \in {AssocRules(itemsets, frequent_df)} :
          /\ out.raised
          /\ error' = out.missing
          /\ exc' = out.exc
    /\ rpc' = "raised"
    /\ UNCHANGED <<itemsets, frequent_df, rules_df, eclatVars, prefixVars>>

\* the inputs of assoc_rules: itemsets made of three items of the demo data,
\* and the table eclat returns for the demo data, at the demo threshold or at
\* the lowest one, with at most MaxMissing of the records on these items
\* removed
RuleItems == {bread, milk, cheese}

RulePool == {SeqOfSet(S) : S \in (SUBSET RuleItems) \ {{}}}

RuleInputs == UNION {[1..n -> RulePool] : n \in 0..MaxItemsets}

Without(table, D) ==
    LET kept == SeqOfSet((1..Len(table)) \ D)
    IN  [k \in 1..Len(kept) |-> table[kept[k]]]

RuleTables ==
    UNION {{Without(table, D) :
               D \in {E \in SUBSET {k \in 1..Len(table) :
                                       Range(table[k].itemsets) \subseteq RuleItems} :
                        Cardinality(E) <= MaxMissing}} :
           table \in {EclatRun(SetToBag(FixtureRows), FixtureSupport).emitted,
                      EclatRun(SetToBag(FixtureRows), LowestSupport).emitted}}

InitRules ==
    /\ itemsets \in RuleInputs
    /\ frequent_df \in RuleTables
    /\ rpc = "start"
    /\ rules_df = <<>>
    /\ error = <<>>
    /\ exc = ""
    /\ PrefixIdle
    /\ df = EmptyBag
    /\ min_support = <<1, 1>>
    /\ max_iter = <<>>
    /\ cap = <<>>
    /\ pc = "idle"
    /\ EclatIdle

NextRules == AssocRulesReturn \/ AssocRulesRaise

SpecRules == InitRules /\ [][NextRules]_vars

\* ---------------------------------------- _find_common_prefix on its own
\* the arguments: two lists of at most MaxItemsetLen items
Itemsets == UNION {[1..n -> Items] : n \in 0..MaxItemsetLen}

\* lines 29-33: the call returns a list
FindCommonPrefixReturn ==
    /\ fpc = "start"
    /\ \E out \in {FindCommonPrefix(arg1, arg2)} :
          /\ out.raised = ""
          /\ common_prefix' = out.value
    /\ fpc' = "returned"
    /\ UNCHANGED <<arg1, arg2, fexc, eclatVars, rulesVars>>

\* lines 27 and 32: the call raises
FindCommonPrefixRaise ==
    /\ fpc = "start"
    /\ \E out \in {FindCommonPrefix(arg1, arg2)} :
          /\ out.raised # ""
          /\ fexc' = out.raised
    /\ fpc' = "raised"
    /\ UNCHANGED <<arg1, arg2, common_prefix, eclatVars, rulesVars>>

InitPrefix ==
    /\ arg1 \in Itemsets
    /\ arg2 \in Itemsets
    /\ fpc = "start"
    /\ common_prefix = <<>>
    /\ fexc = ""
    /\ df = EmptyBag
    /\ min_support = <<1, 1>>
    /\ max_iter = <<>>
    /\ cap = <<>>
    /\ pc = "idle"
    /\ EclatIdle
    /\ RulesIdle

NextPrefix == FindCommonPrefixReturn \/ FindCommonPrefixRaise

SpecPrefix == InitPrefix /\ [][NextPrefix]_vars

\* ------------------------------------------------- reference definitions
\* the items that occur in the observations: the itemsets are drawn from them
ItemUniverse == {r[2] : r \in BagToSet(df)}
Tids == {r[1] : r \in BagToSet(df)}

\* the number of distinct transactions that contain every item of S
TrueFreq(S) == Cardinality({t \in Tids : \A i \in S : <<t, i>> \in BagToSet(df)})

\* the least integer m with m >= min_support * |Tids|
TrueMinFreq ==
    CHOOSE m \in 0..Cardinality(Tids) :
        /\ m * min_support[2] >= min_support[1] * Cardinality(Tids)
        /\ \A k \in 0..(m - 1) : k * min_support[2] < min_support[1] * Cardinality(Tids)

IsPrefix(s, t) == Len(s) <= Len(t) /\ s = SubSeq(t, 1, Len(s))
NoCap == cap = <<>> \/ cap = <<0>>
PositiveCap == cap # <<>> /\ cap[1] >= 1

\* ---------------------------------------------------------------- claims

\* C1: with max_iter absent or 0, the returned table holds, exactly once each
\* (as sets of items), every non-empty itemset contained in at least
\* ceil(min_support * number of distinct transactions) transactions, and no
\* other itemset.
C1_Completeness ==
    (pc = "done" /\ NoCap) =>
        /\ \A S \in (SUBSET ItemUniverse) \ {{}} :
              TrueFreq(S) >= TrueMinFreq =>
                Cardinality({k \in 1..Len(freq_itemset) :
                               Range(freq_itemset[k].itemsets) = S}) = 1
        /\ \A k \in 1..Len(freq_itemset) :
              /\ Range(freq_itemset[k].itemsets) # {}
              /\ TrueFreq(Range(freq_itemset[k].itemsets)) >= TrueMinFreq

C1_Witness ==
    /\ pc = "done" /\ NoCap
    /\ df # SetToBag(FixtureRows)
    /\ iterations >= 2
    /\ \E k \in 1..Len(freq_itemset) : Len(freq_itemset[k].itemsets) = 2
    /\ \E S \in (SUBSET ItemUniverse) \ {{}} : 0 < TrueFreq(S) /\ TrueFreq(S) < TrueMinFreq

\* C2: in every state of the search, under any cap, every emitted record
\* carries the true number of distinct transactions containing all its items,
\* that number is at least minFreq, and its support is frequency / total
\* distinct transactions, hence at least min_support.
C2_Soundness ==
    \A k \in 1..Len(freq_itemset) :
        LET rec == freq_itemset[k]
        IN  /\ rec.frequencies = TrueFreq(Range(rec.itemsets))
            /\ rec.frequencies >= TrueMinFreq
            /\ Cardinality(Tids) > 0
            /\ RatEq(rec.support, <<rec.frequencies, Cardinality(Tids)>>)
            /\ RatLeq(min_support, rec.support)

C2_Witness ==
    /\ pc = "loop" /\ PositiveCap /\ equiv_classes # <<>>
    /\ \E k \in 1..Len(freq_itemset) :
          /\ Len(freq_itemset[k].itemsets) = 2
          /\ freq_itemset[k].frequencies < Cardinality(Tids)

\* C3: on the demo fixture with min_support 0.4 and no cap, eclat returns
\* exactly these ten records in this order, and nothing of size 3 or more.
FixtureTable ==
    << [itemsets |-> <<butter>>, frequencies |-> 2, support |-> <<2, 5>>],
       [itemsets |-> <<eggs>>, frequencies |-> 2, support |-> <<2, 5>>],
       [itemsets |-> <<bread>>, frequencies |-> 3, support |-> <<3, 5>>],
       [itemsets |-> <<milk>>, frequencies |-> 3, support |-> <<3, 5>>],
       [itemsets |-> <<cheese>>, frequencies |-> 4, support |-> <<4, 5>>],
       [itemsets |-> <<butter, cheese>>, frequencies |-> 2, support |-> <<2, 5>>],
       [itemsets |-> <<eggs, cheese>>, frequencies |-> 2, support |-> <<2, 5>>],
       [itemsets |-> <<bread, milk>>, frequencies |-> 2, support |-> <<2, 5>>],
       [itemsets |-> <<bread, cheese>>, frequencies |-> 2, support |-> <<2, 5>>],
       [itemsets |-> <<milk, cheese>>, frequencies |-> 2, support |-> <<2, 5>>] >>

IsFixtureRun == df = SetToBag(FixtureRows) /\ min_support = FixtureSupport

C3_Fixture ==
    (pc = "done" /\ NoCap /\ IsFixtureRun) =>
        /\ minFreq = 2
        /\ freq_itemset = FixtureTable
        /\ \A k \in 1..Len(freq_itemset) : Len(freq_itemset[k].itemsets) < 3

C3_Witness == pc = "done" /\ NoCap /\ IsFixtureRun /\ Len(freq_itemset) = 10

\* C4: with a positive cap N the loop pops exactly min(N, K) classes, K being
\* the number the uncapped run pops; with N = 1 the seed class is processed
\* and the frequent pairs are emitted.
C4_CapCountsIterations ==
    (pc = "done" /\ PositiveCap) =>
        /\ iterations = Min(cap[1], Uncapped.popped)
        /\ cap[1] = 1 =>
              \A S \in SUBSET ItemUniverse :
                  (Cardinality(S) = 2 /\ TrueFreq(S) >= TrueMinFreq) =>
                      \E k \in 1..Len(freq_itemset) : Range(freq_itemset[k].itemsets) = S

\* C5: with a positive cap the call never raises, and what it returns is a
\* prefix of what the uncapped run returns, holding every frequent singleton.
C5_CutoffPrefix ==
    PositiveCap =>
        /\ pc # "error"
        /\ pc = "done" =>
              /\ IsPrefix(freq_itemset, Uncapped.emitted)
              /\ \A i \in ItemUniverse :
                    TrueFreq({i}) >= TrueMinFreq =>
                        \E k \in 1..Len(freq_itemset) : freq_itemset[k].itemsets = <<i>>

C5_Witness ==
    /\ pc = "done" /\ PositiveCap
    /\ iterations >= 1
    /\ equiv_classes # <<>>
    /\ Len(freq_itemset) < Len(Uncapped.emitted)

\* C6: with max_iter absent or 0 the cap never ends the loop, and the search
\* eventually returns with the stack of pending classes empty.
C6_Termination ==
    NoCap => <>(pc = "done" /\ equiv_classes = <<>>)

C6_Witness ==
    /\ pc = "done" /\ NoCap /\ equiv_classes = <<>>
    /\ iterations >= 4

\* ------------------------------------------------- claims on assoc_rules
Called == rpc \in {"returned", "raised"}

\* the number of rules of the first n itemsets
RECURSIVE RuleCount(_, _)
RuleCount(sets, n) ==
    IF n = 0 THEN 0 ELSE RuleCount(sets, n - 1) + 2 ^ Len(sets[n]) - 2

\* the record of the table whose items are the set S
HasRecord(S) == \E k \in 1..Len(frequent_df) : Range(frequent_df[k].itemsets) = S
RecordFor(S) ==
    frequent_df[CHOOSE k \in 1..Len(frequent_df) : Range(frequent_df[k].itemsets) = S]

RatDiv(a, b) == <<a[1] * b[2], a[2] * b[1]>>

\* C7: when every lookup succeeds, an itemset of n distinct items yields
\* exactly 2^n - 2 rules, one per proper non-empty subset as antecedent, with
\* its complement as consequent; an itemset of size 1 yields none.
C7_RuleEnumeration ==
    rpc = "returned" =>
        /\ Len(rules_df) = RuleCount(itemsets, Len(itemsets))
        /\ \A n \in 1..Len(itemsets) :
              LET S == Range(itemsets[n])
                  seg == (RuleCount(itemsets, n - 1) + 1)..RuleCount(itemsets, n)
              IN  /\ Cardinality(seg) = 2 ^ Cardinality(S) - 2
                  /\ \A A \in (SUBSET S) \ {{}, S} :
                        Cardinality({k \in seg : Range(rules_df[k].rule[1]) = A}) = 1
                  /\ \A k \in seg :
                        LET antecedent == rules_df[k].rule[1]
                            consequent == rules_df[k].rule[2]
                        IN  /\ antecedent # <<>> /\ consequent # <<>>
                            /\ Range(antecedent) \cap Range(consequent) = {}
                            /\ Range(antecedent) \cup Range(consequent) = S
                            /\ Len(antecedent) + Len(consequent) = Cardinality(S)

C7_Witness ==
    /\ rpc = "returned"
    /\ \E n \in 1..Len(itemsets) : Len(itemsets[n]) = 3
    /\ \E n \in 1..Len(itemsets) : Len(itemsets[n]) = 1
    /\ Len(rules_df) = 6

\* C8: whenever an itemset given to assoc_rules (of any size >= 1), or one of
\* its antecedents or consequents, has no record in the table, the call
\* raises an error naming a missing itemset and returns no rule table.
C8_MissingAborts ==
    (Called /\ \E n \in 1..Len(itemsets) :
                 \E A \in (SUBSET Range(itemsets[n])) \ {{}} : ~HasRecord(A)) =>
        /\ rpc = "raised"
        /\ error # <<>> /\ ~HasRecord(Range(error))
        /\ rules_df = <<>>

\* C9: every returned rule carries the support of its whole itemset,
\* confidence = frequency(itemset) / frequency(antecedent) and
\* lift = confidence / support(consequent), read from the records that match
\* by set of items; on the fixture table bread -> milk has confidence 2/3 and
\* lift 10/9.
C9_RuleMetrics ==
    rpc = "returned" =>
        /\ \A k \in 1..Len(rules_df) :
              LET row == rules_df[k]
                  whole == RecordFor(Range(row.rule[1]) \cup Range(row.rule[2]))
                  ante == RecordFor(Range(row.rule[1]))
                  cons == RecordFor(Range(row.rule[2]))
              IN  /\ RatEq(row.support, whole.support)
                  /\ RatEq(row.confidence, <<whole.frequencies, ante.frequencies>>)
                  /\ RatEq(row.lift, RatDiv(<<whole.frequencies, ante.frequencies>>,
                                            cons.support))
        /\ (frequent_df = FixtureTable
              /\ \E n \in 1..Len(itemsets) : itemsets[n] = <<bread, milk>>) =>
                \E k \in 1..Len(rules_df) :
                    /\ rules_df[k].rule = <<(<<bread>>), (<<milk>>)>>
                    /\ RatEq(rules_df[k].support, <<2, 5>>)
                    /\ RatEq(rules_df[k].confidence, <<2, 3>>)
                    /\ RatEq(rules_df[k].lift, <<10, 9>>)

C9_Witness ==
    /\ rpc = "returned"
    /\ frequent_df = FixtureTable
    /\ itemsets = <<(<<bread, milk>>), (<<bread, cheese>>)>>
    /\ Len(rules_df) = 4

\* the table with the items of every itemset reversed, or rotated by one
Reversed(lis) == [k \in 1..Len(lis) |-> lis[Len(lis) + 1 - k]]
Rotated(lis) == [k \in 1..Len(lis) |-> lis[(k % Len(lis)) + 1]]
ReversedTable == [k \in 1..Len(frequent_df) |->
                    [frequent_df[k] EXCEPT !.itemsets = Reversed(@)]]
RotatedTable == [k \in 1..Len(frequent_df) |->
                   [frequent_df[k] EXCEPT !.itemsets = Rotated(@)]]

\* C10: the outcome of assoc_rules (the error raised, or the support,
\* confidence and lift of every rule) does not change when the items inside
\* the itemsets of the table are permuted.
C10_OrderInsensitive ==
    Called =>
        \A table \in {ReversedTable, RotatedTable} :
            LET out == AssocRules(itemsets, table)
            IN  /\ out.raised = (rpc = "raised")
                /\ out.missing = error
                /\ out.rules_df = rules_df

C10_Witness ==
    /\ rpc = "returned"
    /\ Len(rules_df) >= 6
    /\ ReversedTable # frequent_df /\ RotatedTable # frequent_df
    /\ RotatedTable # ReversedTable

\* ------------------------------------------------- claims on the search
\* the set of items of the k-th emitted record
ItemsOf(k) == Range(freq_itemset[k].itemsets)

\* C11: in every state of the search, for any two emitted records whose
\* itemsets A and B satisfy A strictly included in B (as sets of items),
\* frequency(A) >= frequency(B).
C11_SupportMonotone ==
    \A k, m \in 1..Len(freq_itemset) :
        (ItemsOf(k) \subseteq ItemsOf(m) /\ ItemsOf(k) # ItemsOf(m)) =>
            freq_itemset[k].frequencies >= freq_itemset[m].frequencies

C11_Witness ==
    /\ pc = "loop"
    /\ \E k, m, n \in 1..Len(freq_itemset) :
          /\ Len(freq_itemset[k].itemsets) = 1
          /\ Len(freq_itemset[m].itemsets) = 2
          /\ Len(freq_itemset[n].itemsets) = 3
          /\ ItemsOf(k) \subseteq ItemsOf(m) /\ ItemsOf(m) \subseteq ItemsOf(n)
          /\ freq_itemset[k].frequencies > freq_itemset[m].frequencies
          /\ freq_itemset[m].frequencies > freq_itemset[n].frequencies

\* the observations are empty, or no item reaches the threshold
Degenerate == \A i \in ItemUniverse : TrueFreq({i}) < TrueMinFreq

\* C12: when the observations are empty, or when no item's transaction set
\* reaches minFreq, eclat returns normally with an empty table, for every
\* value of the cap, without ever calling _find_common_prefix: no state
\* holds a record, a call of the helper or an error, at most one class (the
\* empty seed) is ever popped, and the return is reached.
C12_DegenerateInput ==
    /\ [](Degenerate =>
            /\ pc # "error"
            /\ freq_itemset = <<>>
            /\ prefix_calls = 0
            /\ iterations <= 1
            /\ pc \in {"loop", "done"} => vert_df = <<>>)
    /\ Degenerate => <>(pc = "done" /\ freq_itemset = <<>>)

C12_Witness ==
    /\ Degenerate
    /\ df # EmptyBag
    /\ pc = "done"
    /\ iterations = 1
    /\ equiv_classes = <<>>

\* C13: when a subset of an itemset given to assoc_rules does not exist in
\* frequent_df, the error that reaches the caller is an IndexError, as the
\* docstring of assoc_rules states.
C13_DocumentedErrorKind ==
    (Called /\ \E n \in 1..Len(itemsets) :
                 \E A \in (SUBSET Range(itemsets[n])) \ {{}, Range(itemsets[n])} :
                     ~HasRecord(A)) =>
        /\ rpc = "raised"
        /\ exc = "IndexError"

\* the length of the longest itemset emitted so far
LongestEmitted ==
    IF freq_itemset = <<>> THEN 0
    ELSE LET lens == {Len(freq_itemset[k].itemsets) : k \in 1..Len(freq_itemset)}
         IN  CHOOSE n \in lens : \A m \in lens : n >= m

\* the pending classes that hold an element (the seed of a degenerate input
\* holds none), bottom of the stack first
Pending == SelectSeq(equiv_classes, LAMBDA class : class # <<>>)

\* the items shared by the itemsets of a class: all but the last of each
ClassPrefix(class) == Front(class[1].itemset)

\* C14: in every state of the search the number of classes pending on the
\* stack is at most the length of the longest itemset emitted so far, and
\* the pending classes form a single chain: the prefix of each is a prefix of
\* the prefix of the class above it.
C14_StackDepthBound ==
    /\ Len(Pending) <= LongestEmitted
    /\ \A k \in 1..(Len(Pending) - 1) :
          IsPrefix(ClassPrefix(Pending[k]), ClassPrefix(Pending[k + 1]))

\* C14 as amended: the number of pending classes is at most max(1, n - 1),
\* n being the number of items that survive the prune; the pending classes
\* have pairwise distinct prefixes, and each prefix other than the empty one
\* of the seed is an itemset already emitted.
C14_StackWidthBound ==
    /\ Len(equiv_classes) <= (IF Len(vert_df) <= 2 THEN 1 ELSE Len(vert_df) - 1)
    /\ \A k, m \in 1..Len(Pending) :
          k # m => ClassPrefix(Pending[k]) # ClassPrefix(Pending[m])
    /\ \A k \in 1..Len(Pending) :
          \/ ClassPrefix(Pending[k]) = <<>>
          \/ \E n \in 1..Len(freq_itemset) :
                freq_itemset[n].itemsets = ClassPrefix(Pending[k])

C14_Witness ==
    /\ pc = "loop"
    /\ Len(vert_df) >= 4
    /\ Len(Pending) = Len(vert_df) - 1
    /\ Len(Pending) > LongestEmitted

\* the transactions that hold every item of the list
TrueTransacts(lis) == {t \in Tids : \A i \in Range(lis) : <<t, i>> \in BagToSet(df)}

\* C15: in every state, every class on the stack other than the seed (the
\* only class there before the first iteration) is non-empty, all its
\* itemsets have the same length k >= 2, agree on their first k-1 items and
\* have pairwise distinct last items, and each is paired with exactly the
\* intersection of its items' transaction sets; no pair of a class makes
\* _find_common_prefix raise, and no run of eclat ends in an error.
C15_ClassInvariant ==
    /\ pc # "error"
    /\ iterations >= 1 =>
          \A c \in 1..Len(equiv_classes) :
             LET class == equiv_classes[c]
             IN  /\ class # <<>>
                 /\ Len(class[1].itemset) >= 2
                 /\ \A e \in 1..Len(class) :
                       /\ Len(class[e].itemset) = Len(class[1].itemset)
                       /\ Front(class[e].itemset) = Front(class[1].itemset)
                       /\ class[e].transacts = TrueTransacts(class[e].itemset)
                       /\ \A f \in 1..Len(class) :
                             /\ e # f => Last(class[e].itemset) # Last(class[f].itemset)
                             /\ FindCommonPrefix(class[e].itemset,
                                                 class[f].itemset).raised # "ValueError"

C15_Witness ==
    /\ pc = "loop"
    /\ iterations >= 2
    /\ Len(equiv_classes) >= 2
    /\ \E c \in 1..Len(equiv_classes) :
          /\ Len(equiv_classes[c]) >= 2
          /\ Len(equiv_classes[c][1].itemset) = 3

\* C16: after the transform and the prune, the index maps each surviving
\* item to exactly the set of transaction ids that occur with it in the
\* observations (a repeated row counts once), every surviving set has size
\* >= minFreq, every item whose set is smaller is absent (and no other is),
\* the items are ordered by non-decreasing set size, and the support
\* denominator is the number of distinct transaction ids of the whole input.
C16_VerticalIndex ==
    pc \in {"loop", "done"} =>
        /\ total_transactions = Cardinality(Tids)
        /\ minFreq = TrueMinFreq
        /\ \A k \in 1..Len(vert_df) :
              /\ vert_df[k].item \in ItemUniverse
              /\ vert_df[k].transacts =
                    {t \in Tids : CopiesIn(<<t, vert_df[k].item>>, df) >= 1}
              /\ Cardinality(vert_df[k].transacts) >= minFreq
              /\ \A m \in 1..Len(vert_df) :
                    /\ k # m => vert_df[k].item # vert_df[m].item
                    /\ k < m => Cardinality(vert_df[k].transacts)
                                    <= Cardinality(vert_df[m].transacts)
        /\ \A i \in ItemUniverse :
              (\E k \in 1..Len(vert_df) : vert_df[k].item = i)
                  <=> TrueFreq({i}) >= minFreq

C16_Witness ==
    /\ pc = "loop"
    /\ \E r \in BagToSet(df) : CopiesIn(r, df) = 2
    /\ Len(vert_df) >= 2
    /\ Cardinality(vert_df[1].transacts) < Cardinality(vert_df[Len(vert_df)].transacts)
    /\ Len(vert_df) < Cardinality(ItemUniverse)
    /\ total_transactions = NumTrans

\* the position of an item in the pruned index
IndexPos(item) == CHOOSE n \in 1..Len(vert_df) : vert_df[n].item = item

\* C17: every emitted itemset consists of pairwise distinct items listed in
\* the order of the vertical index (non-decreasing singleton support), and
\* for every pair of elements of a pending class that is combined, the
\* stable re-sort leaves prefix + [last of element i, last of element j] as
\* it is.
C17_ItemsetOrder ==
    /\ \A k \in 1..Len(freq_itemset) :
          LET lis == freq_itemset[k].itemsets
          IN  /\ \A a \in 1..Len(lis) : \E n \in 1..Len(vert_df) : vert_df[n].item = lis[a]
              /\ \A a, b \in 1..Len(lis) :
                    a < b => /\ IndexPos(lis[a]) < IndexPos(lis[b])
                             /\ IndexLen(vert_df, lis[a]) <= IndexLen(vert_df, lis[b])
    /\ \A c \in 1..Len(equiv_classes) :
          \A i, j \in 1..Len(equiv_classes[c]) :
             (/\ i < j
              /\ Cardinality(equiv_classes[c][i].transacts
                                \cap equiv_classes[c][j].transacts) >= minFreq) =>
                 NewItemset(equiv_classes[c][i].itemset, equiv_classes[c][j].itemset,
                            vert_df)
                   = Appended(equiv_classes[c][i].itemset, equiv_classes[c][j].itemset)

C17_Witness ==
    /\ pc = "loop"
    /\ \E k \in 1..Len(freq_itemset) :
          LET lis == freq_itemset[k].itemsets
          IN  /\ Len(lis) = 3
              /\ lis[1] > lis[2]
              /\ IndexLen(vert_df, lis[2]) = IndexLen(vert_df, lis[3])
              /\ IndexLen(vert_df, lis[1]) < IndexLen(vert_df, lis[2])

\* the itemsets of the table built so far, in its order
EmittedItemsets == [k \in 1..Len(freq_itemset) |-> freq_itemset[k].itemsets]

\* C18: in every state of the search, every non-empty proper subset of every
\* emitted itemset has been emitted; hence under any cap assoc_rules, given
\* itemsets of the returned table and that table, does not raise: none of
\* the rules of any itemset of the table fails a lookup.
C18_DownwardClosure ==
    /\ LET emitted == {ItemsOf(k) : k \in 1..Len(freq_itemset)}
       IN  \A S \in emitted : \A A \in (SUBSET S) \ {{}, S} : A \in emitted
    /\ pc = "done" =>
          LET rules == Rules(EmittedItemsets)
          IN  \A k \in 1..Len(rules) : ~RuleRow(rules[k], freq_itemset).raised

C18_Witness ==
    /\ pc = "done" /\ PositiveCap
    /\ equiv_classes # <<>>
    /\ Len(freq_itemset) < Len(Uncapped.emitted)
    /\ Len(AssocRules(EmittedItemsets, freq_itemset).rules_df) >= 4
    /\ \E k \in 1..Len(Uncapped.emitted) : Len(Uncapped.emitted[k].itemsets) >= 3

\* ------------------------------------------ claims on _find_common_prefix
\* the longest list that is a prefix of both
LongestCommonPrefix(s, t) ==
    LET common == {n \in 0..Min(Len(s), Len(t)) : SubSeq(s, 1, n) = SubSeq(t, 1, n)}
    IN  SubSeq(s, 1, CHOOSE n \in common : \A m \in common : n >= m)

\* C19: for every pair of non-empty itemsets of equal length
\* _find_common_prefix returns their longest common leading prefix (the
\* empty list when they differ at position 0, the whole itemset when the two
\* are identical), and for a pair of different lengths it raises an error
\* instead of returning.
C19_CommonPrefix ==
    fpc \in {"returned", "raised"} =>
        /\ (arg1 # <<>> /\ Len(arg1) = Len(arg2)) =>
              /\ fpc = "returned"
              /\ common_prefix = LongestCommonPrefix(arg1, arg2)
              /\ arg1[1] # arg2[1] => common_prefix = <<>>
              /\ arg1 = arg2 => common_prefix = arg1
        /\ Len(arg1) # Len(arg2) => fpc = "raised" /\ fexc # ""

====
